---- MODULE Spec2Model ----
(***************************************************************************)
(* The reward functions of hearts-gym (src/hearts_gym/envs):               *)
(*   reward_function.py   RewardFunction.compute_reward   -> Reward1       *)
(*   reward_function3.py  RewardFunction.compute_reward   -> Reward3       *)
(*   reward_function4.py  RewardFunction.compute_reward   -> Reward4       *)
(*                                                                         *)
(* Each compute_reward reads the shared game object (self.game) and        *)
(* returns a number.  The game object is the state; a call stores its      *)
(* outcome in `result`.  Rewards are Python floats; they are modelled as   *)
(* exact fractions num/den.  Every value the three functions can return    *)
(* is a fraction whose denominator divides 11 * 26 * 2, so distinct        *)
(* fractions are at least 1/572 apart and equal fractions are computed by  *)
(* the same expression: float rounding (1e-16) changes neither an          *)
(* equality nor a strict comparison stated below.                          *)
(*                                                                         *)
(* The game object itself (hearts_game) is not part of src/; the set of    *)
(* game states is built from the field table of spec.md section 3.         *)
(***************************************************************************)
EXTENDS Integers, Sequences, FiniteSets, TLC

VARIABLES game, result

vars == <<game, result>>

----------------------------------------------------------------------------
(* Bounds of the model *)

NumPlayers == 3

MaxExtra == 1

(* Program constants *)

None == -1

Hearts == 2

Spades == 3

QueenRank == 10

RankScale == 11

GlobalMaxRank == 12

MaxPenalty == 26

NormShift == 26

NormScale == 52

----------------------------------------------------------------------------
(* Cards, players, and the bounded sets the game states are drawn from *)

Players == 0 .. (NumPlayers - 1)

Suits == 0 .. Spades

Ranks == 0 .. GlobalMaxRank

Card(s, r) == [suit |-> s, rank |-> r]

NoCard == Card(None, None)

QueenOfSpades == Card(Spades, QueenRank)

\* The cards completed tricks are drawn from: two and ace of clubs, ace of
\* diamonds, ace of hearts, queen of spades.
TrickDeck ==
    { Card(0, 0), Card(0, GlobalMaxRank), Card(1, GlobalMaxRank),
      Card(Hearts, GlobalMaxRank), QueenOfSpades }

\* The cards the trick in progress is drawn from: two of hearts, queen and
\* ace of spades.
TableDeck == { Card(Hearts, 0), QueenOfSpades, Card(Spades, GlobalMaxRank) }

\* Cards a player may hold besides the one played: three of clubs, three of
\* hearts.
ExtraCards == { Card(0, 1), Card(Hearts, 1) }

ExtraHands == { h \in SUBSET ExtraCards : Cardinality(h) <= MaxExtra }

Range(s) == { s[i] : i \in DOMAIN s }

Injective(s) == \A i, j \in DOMAIN s : s[i] = s[j] => i = j

\* Complete tricks: one card per player, in play order.
Tricks == { t \in [1 .. NumPlayers -> TrickDeck] : Injective(t) }

\* Tables of a trick in progress: fewer than NumPlayers cards, in play order.
Tables(maxLen, used) ==
    UNION { { t \in [1 .. n -> TableDeck \ used] : Injective(t) } : n \in 0 .. maxLen }

----------------------------------------------------------------------------
(* Python list access: 0-based index, IndexError past the end *)

InList(s, i) == i >= 0 /\ i < Len(s)

At(s, i) == s[i + 1]

SuitsOf(hand) == { c.suit : c \in hand }

SetMax(S) == CHOOSE x \in S : \A y \in S : y <= x

----------------------------------------------------------------------------
(* The game collaborator (spec.md section 3 and glossary) *)

\* Position in play order of the highest card of the leading suit.
WinningPosition(trick) ==
    CHOOSE i \in DOMAIN trick :
        /\ trick[i].suit = trick[1].suit
        /\ \A j \in DOMAIN trick :
               trick[j].suit = trick[1].suit => trick[j].rank <= trick[i].rank

TrickWinner(leader, trick) == (leader + WinningPosition(trick) - 1) % NumPlayers

\* One point per heart, half of max_penalty for the queen of spades.
TrickPenalty(trick) ==
    Cardinality({ i \in DOMAIN trick : trick[i].suit = Hearts })
    + (IF QueenOfSpades \in Range(trick) THEN MaxPenalty \div 2 ELSE 0)

\* The card the player played in the trick led by `leader`.
CardPlayedBy(q, leader, trick) == trick[((q - leader + NumPlayers) % NumPlayers) + 1]

\* The game object after a completed trick `trick` led by `leader`, with
\* `cur` on the table.  Player f's entries are the ones varied: whether the
\* last play was illegal, whether the played card has been consumed, whether
\* f shot the moon, and the rest of f's hand.
GameAfterTrick(leader, trick, cur, first, f, illegal, absent, moon, extra) ==
    [ prev_leading_player_index |-> leader,
      prev_table_cards |-> trick,
      prev_leading_suit |-> trick[1].suit,
      prev_was_first_trick |-> first,
      prev_trick_winner_index |-> TrickWinner(leader, trick),
      prev_trick_penalty |-> TrickPenalty(trick),
      prev_played_cards |->
          [q \in Players |->
              IF q = f /\ absent THEN NoCard ELSE CardPlayedBy(q, leader, trick)],
      prev_hands |->
          [q \in Players |->
              {CardPlayedBy(q, leader, trick)} \cup (IF q = f THEN extra ELSE {})],
      prev_was_illegals |-> [q \in Players |-> q = f /\ illegal],
      shot_the_moon |-> [q \in Players |-> q = f /\ moon],
      table_cards |-> cur,
      leading_suit |-> IF Len(cur) = 0 THEN None ELSE cur[1].suit,
      max_penalty |-> MaxPenalty ]

\* The game object before any trick has been completed.
GameAtStart(cur, f, illegal, extra) ==
    [ prev_leading_player_index |-> None,
      prev_table_cards |-> << >>,
      prev_leading_suit |-> None,
      prev_was_first_trick |-> FALSE,
      prev_trick_winner_index |-> None,
      prev_trick_penalty |-> None,
      prev_played_cards |-> [q \in Players |-> NoCard],
      prev_hands |-> [q \in Players |-> IF q = f THEN extra ELSE {}],
      prev_was_illegals |-> [q \in Players |-> q = f /\ illegal],
      shot_the_moon |-> [q \in Players |-> FALSE],
      table_cards |-> cur,
      leading_suit |-> IF Len(cur) = 0 THEN None ELSE cur[1].suit,
      max_penalty |-> MaxPenalty ]

\* The states a call may find the game in: a table of at most maxTable cards.
IsGameState(g, maxTable) ==
    \/ \E l \in Players, t \in Tricks, first \in BOOLEAN, f \in Players,
          i \in BOOLEAN, a \in BOOLEAN, m \in BOOLEAN, e \in ExtraHands :
          \E c \in Tables(maxTable, Range(t)) :
              g = GameAfterTrick(l, t, c, first, f, i, a, m, e)
    \/ \E c \in Tables(maxTable, {}), f \in Players, i \in BOOLEAN, e \in ExtraHands :
          g = GameAtStart(c, f, i, e)

----------------------------------------------------------------------------
(* Outcomes of a call *)

Ok(n, d) == [status |-> "ok", num |-> n, den |-> d]

Raise(e) == [status |-> e, num |-> 0, den |-> 1]

NoResult ==
    [called |-> FALSE, player_index |-> None, trick_is_over |-> FALSE,
     outcome |-> Raise("none")]

Returned(p, tio, o) ==
    [called |-> TRUE, player_index |-> p, trick_is_over |-> tio, outcome |-> o]

\* The environment hands the reward to the agent; the next call starts afresh.
Deliver ==
    /\ result.called
    /\ result' = NoResult
    /\ UNCHANGED game

----------------------------------------------------------------------------
(* reward_function3.py: compute_reward, a cascade of early returns *)

\* MoonReward3 without the division by max_penalty.
MoonReward3Unnormalized(g) == Ok(g.max_penalty, 1)

\* WinnerReward3 charging max_penalty instead of the penalty of the trick.
WinnerReward3MaxPenalty(g) ==
    IF g.prev_trick_penalty = None THEN Raise("AssertionError")
    ELSE Ok(-g.max_penalty, g.max_penalty)

\* GameAfterReward3 for a compute_reward that consumes the scored card.
GameAfterReward3Consumed(g, player_index) ==
    [g EXCEPT !.prev_played_cards[player_index] = NoCard]

\* WinnerReward3 without the assertion, charging nothing when no penalty is
\* recorded.
WinnerReward3Unasserted(g) ==
    IF g.prev_trick_penalty = None THEN Ok(0, g.max_penalty)
    ELSE Ok(-g.prev_trick_penalty, g.max_penalty)

IllegalReward3(g) == Ok(-g.max_penalty, g.max_penalty)

MoonReward3(g) == Ok(g.max_penalty, g.max_penalty)

\* (1 + rank / 11) / max_penalty
FirstTrickReward3(g, p) ==
    IF ~InList(g.prev_table_cards, p) THEN Raise("IndexError")
    ELSE Ok(RankScale + At(g.prev_table_cards, p).rank, RankScale * g.max_penalty)

\* (1 + 1 - rank / 11) / max_penalty
LeadReward3(g, p) ==
    IF ~InList(g.prev_table_cards, p) THEN Raise("IndexError")
    ELSE Ok(2 * RankScale - At(g.prev_table_cards, p).rank, RankScale * g.max_penalty)

\* The suit the hand is tested against for "has no card of the suit led".
VoidSuit3(g) == g.leading_suit

\* Queen of spades: max_penalty / max_penalty; otherwise
\* (1 + rank / 11 * multiplier) / max_penalty, multiplier 2 for a heart.
VoidReward3(g, p) ==
    IF ~InList(g.prev_table_cards, p) THEN Raise("IndexError")
    ELSE LET played_card == At(g.prev_table_cards, p)
             multiplier == IF played_card.suit = Hearts THEN 2 ELSE 1
         IN  IF played_card.suit = Spades /\ played_card.rank = QueenRank
             THEN Ok(g.max_penalty, g.max_penalty)
             ELSE Ok(RankScale + played_card.rank * multiplier,
                     RankScale * g.max_penalty)

WinnerReward3(g) ==
    IF g.prev_trick_penalty = None THEN Raise("AssertionError")
    ELSE Ok(-g.prev_trick_penalty, g.max_penalty)

DefaultReward3(g) == Ok(1, g.max_penalty)

Reward3(g, player_index, prev_active_player_index, trick_is_over) ==
    IF g.prev_was_illegals[player_index] THEN IllegalReward3(g)
    ELSE IF g.prev_played_cards[player_index] = NoCard THEN Ok(0, 1)
    ELSE IF trick_is_over /\ g.shot_the_moon[player_index] THEN MoonReward3(g)
    ELSE IF g.prev_was_first_trick THEN FirstTrickReward3(g, player_index)
    ELSE IF /\ Len(g.prev_table_cards) > 0
            /\ At(g.prev_table_cards, 0) \in g.prev_hands[player_index]
         THEN LeadReward3(g, player_index)
    ELSE IF /\ Len(g.prev_table_cards) > 0
            /\ VoidSuit3(g) \notin SuitsOf(g.prev_hands[player_index])
         THEN VoidReward3(g, player_index)
    ELSE IF g.prev_trick_winner_index = player_index THEN WinnerReward3(g)
    ELSE DefaultReward3(g)

\* compute_reward assigns to no attribute of self.game.
GameAfterReward3(g, player_index) == g

ComputeReward3(p, pa, tio) ==
    /\ ~result.called
    /\ result' = Returned(p, tio, Reward3(game, p, pa, tio))
    /\ game' = GameAfterReward3(game, p)

\* A second call with the arguments of the first.
ComputeAgain3(pa) ==
    /\ result.called
    /\ result' = Returned(result.player_index, result.trick_is_over,
                          Reward3(game, result.player_index, pa, result.trick_is_over))
    /\ game' = GameAfterReward3(game, result.player_index)

Init3 == IsGameState(game, 1) /\ result = NoResult

Next3 ==
    \/ \E p \in Players, pa \in Players, tio \in BOOLEAN : ComputeReward3(p, pa, tio)
    \/ \E pa \in Players : ComputeAgain3(pa)
    \/ Deliver

Spec3 == Init3 /\ [][Next3]_vars

\* The game object of a state that breaks the contract of the collaborator:
\* a trick winner is declared and prev_trick_penalty is None.
WithoutPenalty(g) == [g EXCEPT !.prev_trick_penalty = None]

\* Game states after a completed trick other than the opening one, whose
\* players all played legally and have their played card on record, with the
\* penalty of the trick recorded or missing.
IsGameStateOrViolation(g) ==
    \E l \in Players, t \in Tricks, f \in Players, m \in BOOLEAN, e \in ExtraHands :
        \E c \in Tables(1, Range(t)) :
            LET h == GameAfterTrick(l, t, c, FALSE, f, FALSE, FALSE, m, e)
            IN  g = h \/ g = WithoutPenalty(h)

InitContract3 == IsGameStateOrViolation(game) /\ result = NoResult

SpecContract3 == InitContract3 /\ [][Next3]_vars

\* The card compute_reward scores as player p's card of the previous trick.
ScoredCard3(g, p) == At(g.prev_table_cards, p)

\* The player who leads the next trick: the winner of the previous one; any
\* player (the holder of the two of clubs) for the opening trick.
IsNextLeader(g, l) ==
    IF g.prev_trick_winner_index = None THEN l \in Players
    ELSE l = g.prev_trick_winner_index

\* The game plays one whole trick between two reward calls: the players play
\* in turn order starting from leader l and the table records the cards in
\* play order.
PlayTrick(l, t) ==
    /\ ~result.called
    /\ IsNextLeader(game, l)
    /\ game' = GameAfterTrick(l, t, << >>, game.prev_trick_winner_index = None,
                              0, FALSE, FALSE, FALSE, {})
    /\ UNCHANGED result

InitTricks3 == game = GameAtStart(<< >>, 0, FALSE, {}) /\ result = NoResult

NextTricks3 ==
    \/ \E l \in Players, t \in Tricks : PlayTrick(l, t)
    \/ \E p \in Players, pa \in Players, tio \in BOOLEAN : ComputeReward3(p, pa, tio)
    \/ \E pa \in Players : ComputeAgain3(pa)
    \/ Deliver

SpecTricks3 == InitTricks3 /\ [][NextTricks3]_vars

----------------------------------------------------------------------------
(* reward_function.py: compute_reward, a cascade of assignments to `reward`; *)
(* each rule takes the outcome so far and gives the outcome after it.        *)

\* IllegalReward1 as in the commented-out line 62:
\* -max_penalty * max_num_cards_on_hand.
IllegalReward1PerCard(g) == Ok(-g.max_penalty * (GlobalMaxRank + 1), 1)

IllegalReward1(g) == Ok(-g.max_penalty, 1)

\* reward = 1, then the illegal-action rule.
IllegalRule1(g, p) ==
    IF g.prev_was_illegals[p] THEN IllegalReward1(g) ELSE Ok(1, 1)

\* card is None: reward = 0.
NoCardRule1(g, p, acc) ==
    IF g.prev_played_cards[p] = NoCard THEN Ok(0, 1) ELSE acc

MoonReward1(g) == Ok(g.max_penalty, 1)

MoonRule1(g, p, tio, acc) ==
    IF tio /\ g.shot_the_moon[p] THEN MoonReward1(g) ELSE acc

\* Current table, leading suit hearts: -rank / 11 above the highest heart on
\* the table, rank / 11 otherwise.
HeartsLedRule1(g, p, acc) ==
    IF acc.status # "ok" THEN acc
    ELSE IF Len(g.table_cards) > 0 /\ g.leading_suit = Hearts
    THEN LET table_ranks ==
                 { g.table_cards[i].rank :
                     i \in { j \in DOMAIN g.table_cards : g.table_cards[j].suit = Hearts } }
         IN  IF table_ranks = {} THEN Raise("ValueError")
             ELSE IF ~InList(g.table_cards, p) THEN Raise("IndexError")
             ELSE LET played_card == At(g.table_cards, p)
                  IN  IF played_card.rank > SetMax(table_ranks)
                      THEN Ok(-played_card.rank, RankScale)
                      ELSE Ok(played_card.rank, RankScale)
    ELSE acc

\* Penalty for a card above the queen while the queen of spades is on the table.
SpadesOverQueenReward1(g) == Ok(-g.max_penalty, 1)

\* Current table, leading suit spades, a spade of rank 10 on the table.
SpadesLedRule1(g, p, acc) ==
    IF acc.status # "ok" THEN acc
    ELSE IF Len(g.table_cards) > 0 /\ g.leading_suit = Spades
    THEN LET table_ranks ==
                 { g.table_cards[i].rank :
                     i \in { j \in DOMAIN g.table_cards : g.table_cards[j].suit = Spades } }
         IN  IF QueenRank \in table_ranks
             THEN IF ~InList(g.table_cards, p) THEN Raise("IndexError")
                  ELSE LET played_card == At(g.table_cards, p)
                       IN  IF played_card.rank > QueenRank
                           THEN SpadesOverQueenReward1(g)
                           ELSE Ok(played_card.rank, RankScale)
             ELSE acc
    ELSE acc

\* reward = 1 + rank / 11
FirstTrickRule1(g, p, acc) ==
    IF acc.status # "ok" THEN acc
    ELSE IF g.prev_was_first_trick
    THEN IF ~InList(g.prev_table_cards, p) THEN Raise("IndexError")
         ELSE Ok(RankScale + At(g.prev_table_cards, p).rank, RankScale)
    ELSE acc

\* Previous table: 1 + 1 - rank / 11 for the lead; without a card of the
\* leading suit max_penalty for the queen of spades, else
\* 1 + rank / 11 * multiplier.
PrevTableRule1(g, p, acc) ==
    IF acc.status # "ok" THEN acc
    ELSE IF Len(g.prev_table_cards) > 0
    THEN IF At(g.prev_table_cards, 0) \in g.prev_hands[p]
         THEN IF ~InList(g.prev_table_cards, p) THEN Raise("IndexError")
              ELSE Ok(2 * RankScale - At(g.prev_table_cards, p).rank, RankScale)
         ELSE IF g.leading_suit \notin SuitsOf(g.prev_hands[p])
         THEN IF ~InList(g.prev_table_cards, p) THEN Raise("IndexError")
              ELSE LET played_card == At(g.prev_table_cards, p)
                       multiplier == IF played_card.suit = Hearts THEN 2 ELSE 1
                   IN  IF played_card.suit = Spades /\ played_card.rank = QueenRank
                       THEN Ok(g.max_penalty, 1)
                       ELSE Ok(RankScale + played_card.rank * multiplier, RankScale)
         ELSE acc
    ELSE acc

WinnerRule1(g, p, acc) ==
    IF acc.status # "ok" THEN acc
    ELSE IF g.prev_trick_winner_index = p
    THEN IF g.prev_trick_penalty = None THEN Raise("AssertionError")
         ELSE Ok(-g.prev_trick_penalty, 1)
    ELSE acc

\* reward = reward / max_penalty
Normalize1(g, acc) ==
    IF acc.status # "ok" THEN acc ELSE Ok(acc.num, acc.den * g.max_penalty)

Cascade1(g, p, tio) ==
    Normalize1(g,
      WinnerRule1(g, p,
        PrevTableRule1(g, p,
          FirstTrickRule1(g, p,
            SpadesLedRule1(g, p,
              HeartsLedRule1(g, p,
                MoonRule1(g, p, tio,
                  NoCardRule1(g, p,
                    IllegalRule1(g, p)))))))))

\* Reward1 scoring the player that acted instead of player_index.
Reward1OfActivePlayer(g, player_index, prev_active_player_index, trick_is_over) ==
    Cascade1(g, prev_active_player_index, trick_is_over)

Reward1(g, player_index, prev_active_player_index, trick_is_over) ==
    Cascade1(g, player_index, trick_is_over)

ComputeReward1(p, pa, tio) ==
    /\ ~result.called
    /\ result' = Returned(p, tio, Reward1(game, p, pa, tio))
    /\ UNCHANGED game

Init1 == IsGameState(game, NumPlayers - 1) /\ result = NoResult

Next1 ==
    \/ \E p \in Players, pa \in Players, tio \in BOOLEAN : ComputeReward1(p, pa, tio)
    \/ Deliver

Spec1 == Init1 /\ [][Next1]_vars

----------------------------------------------------------------------------
(* reward_function4.py: normalize and compute_reward *)

\* normalize(value, shift=26, scale=52) == (value + shift) / scale
Normalize4(value) == Ok(value + NormShift, NormScale)

\* Highest rank of prev_leading_suit on the previous table (max of a list).
PrevMaxRank4(g) ==
    LET prev_table_ranks ==
            { g.prev_table_cards[i].rank :
                i \in { j \in DOMAIN g.prev_table_cards :
                           g.prev_table_cards[j].suit = g.prev_leading_suit } }
    IN  IF prev_table_ranks = {} THEN None ELSE SetMax(prev_table_ranks)

LeadReward4(g, prev_played_card, prev_hand_suits) ==
    IF (prev_hand_suits \ {Hearts}) # {} /\ prev_played_card.suit = Hearts
    THEN Normalize4(-prev_played_card.rank)
    ELSE Normalize4(prev_played_card.rank)

\* (1 - rank / global_max_rank) * -global_max_rank == rank - global_max_rank
VoidReward4(g, prev_played_card, prev_hand_suits) ==
    IF prev_played_card.suit = Spades /\ prev_played_card.rank = QueenRank
    THEN Normalize4(g.max_penalty)
    ELSE IF Hearts \in prev_hand_suits /\ prev_played_card.suit # Hearts
    THEN Normalize4(prev_played_card.rank - GlobalMaxRank)
    ELSE Normalize4(prev_played_card.rank)

FollowReward4(g, prev_played_card) ==
    IF prev_played_card.rank > PrevMaxRank4(g)
    THEN Normalize4(-prev_played_card.rank)
    ELSE Normalize4(prev_played_card.rank)

Returns4(g, player_index, trick_is_over) ==
    LET prev_played_card == g.prev_played_cards[player_index]
        prev_hand_suits == SuitsOf(g.prev_hands[player_index])
    IN  IF prev_played_card = NoCard \/ Len(g.prev_table_cards) = 0
        THEN Normalize4(0)
        ELSE IF PrevMaxRank4(g) = None THEN Raise("ValueError")
        ELSE IF g.prev_was_illegals[player_index] THEN Normalize4(-g.max_penalty)
        ELSE IF trick_is_over /\ g.shot_the_moon[player_index]
             THEN Normalize4(g.max_penalty)
        ELSE IF g.prev_was_first_trick THEN Normalize4(prev_played_card.rank)
        ELSE IF At(g.prev_table_cards, 0) = prev_played_card
             THEN LeadReward4(g, prev_played_card, prev_hand_suits)
        ELSE IF g.leading_suit \notin prev_hand_suits
             THEN VoidReward4(g, prev_played_card, prev_hand_suits)
        ELSE FollowReward4(g, prev_played_card)

\* Reward4 with the illegal-action rule first, as in reward_function3.py.
Reward4IllegalFirst(g, player_index, prev_active_player_index, trick_is_over) ==
    IF g.prev_was_illegals[player_index] THEN Normalize4(-g.max_penalty)
    ELSE Returns4(g, player_index, trick_is_over)

Reward4(g, player_index, prev_active_player_index, trick_is_over) ==
    Returns4(g, player_index, trick_is_over)

ComputeReward4(p, pa, tio) ==
    /\ ~result.called
    /\ result' = Returned(p, tio, Reward4(game, p, pa, tio))
    /\ UNCHANGED game

Init4 == IsGameState(game, 1) /\ result = NoResult

Next4 ==
    \/ \E p \in Players, pa \in Players, tio \in BOOLEAN : ComputeReward4(p, pa, tio)
    \/ Deliver

Spec4 == Init4 /\ [][Next4]_vars

----------------------------------------------------------------------------
(* Vocabulary of the properties *)

Scored == result.player_index

Out == result.outcome

\* The outcome is a returned reward equal to n / d.
IsValue(o, n, d) == o.status = "ok" /\ o.num * d = n * o.den

\* Strict order on returned rewards (denominators are positive).
Less(a, b) == a.num * b.den < b.num * a.den

PlayedCard(g, p) == g.prev_played_cards[p]

\* The rank does not turn the card into one that is already in the game.
FreshRank(g, p, r) ==
    LET new == Card(PlayedCard(g, p).suit, r)
    IN  /\ new \notin Range(g.prev_table_cards)
        /\ new \notin Range(g.table_cards)
        /\ \A q \in Players : new \notin g.prev_hands[q]

\* The game state that differs only in the rank of the card p played in the
\* previous trick (and in what the game derives from that trick).
WithRank(g, p, r) ==
    LET old == PlayedCard(g, p)
        new == Card(old.suit, r)
        pos == ((p - g.prev_leading_player_index + NumPlayers) % NumPlayers) + 1
        trick == [g.prev_table_cards EXCEPT ![pos] = new]
    IN  [g EXCEPT !.prev_table_cards = trick,
                  !.prev_played_cards[p] = new,
                  !.prev_hands[p] = (@ \ {old}) \cup {new},
                  !.prev_trick_winner_index = TrickWinner(g.prev_leading_player_index, trick),
                  !.prev_trick_penalty = TrickPenalty(trick)]

----------------------------------------------------------------------------
(* C1 *)

\* C1 (reward_function.py): whenever prev_was_illegals[p] is true the returned
\* reward for p is exactly -1, whatever the other fields are.  Stated for the
\* calls that return and whose player has a played card on record.
C1_IllegalGivesMinusOne1 ==
    ( /\ result.called
      /\ game.prev_was_illegals[Scored]
      /\ PlayedCard(game, Scored) # NoCard
      /\ Out.status = "ok" )
    => IsValue(Out, -1, 1)

----------------------------------------------------------------------------
(* C2 *)

----------------------------------------------------------------------------
(* C3 *)

\* C3 as claimed (reward_function3.py): whenever trick_is_over is true and
\* has_shot_the_moon(p) is true, the returned reward is exactly +1, whatever
\* the other fields are.
C3_MoonGivesPlusOne3 ==
    (result.called /\ result.trick_is_over /\ game.shot_the_moon[Scored])
    => IsValue(Out, 1, 1)

\* C3 as amended: whenever trick_is_over and has_shot_the_moon(p) are true,
\* prev_was_illegals[p] is false and prev_played_cards[p] is not None, the
\* returned reward is exactly +1, whatever the other fields are.
C3_MoonGivesPlusOneAfterLegalPlay3 ==
    ( /\ result.called
      /\ result.trick_is_over
      /\ game.shot_the_moon[Scored]
      /\ ~game.prev_was_illegals[Scored]
      /\ PlayedCard(game, Scored) # NoCard )
    => IsValue(Out, 1, 1)

\* A moon shot scored after the opening trick, where the first-trick rule
\* would otherwise decide.
C3_Witness ==
    /\ result.called
    /\ result.trick_is_over
    /\ game.shot_the_moon[Scored]
    /\ ~game.prev_was_illegals[Scored]
    /\ PlayedCard(game, Scored) # NoCard
    /\ game.prev_was_first_trick
    /\ IsValue(Out, 1, 1)

----------------------------------------------------------------------------
(* C4 *)

InUnitRange(o) == o.status = "ok" => (-o.den <= o.num /\ o.num <= o.den)

\* C4 (reward_function.py): with ranks in 0..12, max_penalty = 26 and
\* prev_trick_penalty in 0..max_penalty, every returned reward r satisfies
\* -1 <= r <= 1, for every player index and every trick_is_over; it also does
\* with the penalty of the trick at either end of 0..max_penalty.
C4_RewardInRange1 ==
    result.called =>
        /\ InUnitRange(Out)
        /\ \A penalty \in {0, game.max_penalty} :
               InUnitRange(Reward1([game EXCEPT !.prev_trick_penalty = penalty],
                                   Scored, Scored, result.trick_is_over))

\* The two ends of the range are returned.
C4_Witness ==
    /\ result.called
    /\ IsValue(Out, -1, 1)
    /\ game.prev_was_illegals[Scored]
    /\ Len(game.table_cards) > 0

----------------------------------------------------------------------------
(* C5 *)

\* C5 (reward_function3.py): a call changes no field of the game state, and
\* a second call with the same arguments on the state it left returns the
\* identical result; every call, for whichever player and in whichever
\* order, therefore reads the same state.
C5_CallIsPure3 ==
    [][ /\ game' = game
        /\ (result.called /\ result'.called) => result' = result ]_vars

\* A call that returned a reward decided by the played card.
C5_Witness ==
    /\ result.called
    /\ Out.status = "ok"
    /\ PlayedCard(game, Scored) # NoCard
    /\ ~game.prev_was_illegals[Scored]
    /\ Out # DefaultReward3(game)

----------------------------------------------------------------------------
(* C6 *)

\* C6 (reward_function.py): for a fixed game state, player_index and
\* trick_is_over, the outcome is the same for every value of
\* prev_active_player_index.
C6_ActivePlayerIgnored1 ==
    result.called =>
        \A pa \in Players :
            Reward1(game, Scored, pa, result.trick_is_over) = Out

\* A returned reward for a player whose own entries differ from the others'.
C6_Witness ==
    /\ result.called
    /\ Out.status = "ok"
    /\ game.prev_was_illegals[Scored]
    /\ \E q \in Players : ~game.prev_was_illegals[q]

----------------------------------------------------------------------------
(* C7 *)

\* C7 (reward_function.py): whenever prev_was_first_trick is true and player
\* p played legally, the reward for p is strictly increasing in the rank of
\* the card p played in that opening trick: of two states that differ only
\* in that rank, the one with the higher rank yields the strictly higher
\* reward; this includes the player who led the opening trick.  Stated for
\* opening tricks that hold no penalty card and for the players whose entry
\* of prev_table_cards is the card they played.
C7_FirstTrickIncreasing1 ==
    ( /\ result.called
      /\ game.prev_was_first_trick
      /\ ~game.prev_was_illegals[Scored]
      /\ PlayedCard(game, Scored) # NoCard
      /\ InList(game.prev_table_cards, Scored)
      /\ PlayedCard(game, Scored) = At(game.prev_table_cards, Scored)
      /\ game.prev_trick_penalty = 0
      /\ Out.status = "ok" )
    => \A r \in Ranks :
         ( /\ r # PlayedCard(game, Scored).rank
           /\ FreshRank(game, Scored, r)
           /\ TrickPenalty(WithRank(game, Scored, r).prev_table_cards) = 0 )
         => LET other == Reward1(WithRank(game, Scored, r), Scored, Scored,
                                 result.trick_is_over)
            IN  /\ other.status = "ok"
                /\ r > PlayedCard(game, Scored).rank => Less(Out, other)
                /\ r < PlayedCard(game, Scored).rank => Less(other, Out)

----------------------------------------------------------------------------
(* C8 *)

\* The trick before was not the opening trick and was won by the scored
\* player, who played legally and did not shoot the moon.
WonPreviousTrick3 ==
    /\ result.called
    /\ ~game.prev_was_first_trick
    /\ game.prev_trick_winner_index = Scored
    /\ game.prev_trick_penalty # None
    /\ ~game.prev_was_illegals[Scored]
    /\ PlayedCard(game, Scored) # NoCard
    /\ ~game.shot_the_moon[Scored]

\* Neither the lead rule nor the void rule of reward_function3.py applies.
NoTableRule3 ==
    \/ Len(game.prev_table_cards) = 0
    \/ /\ At(game.prev_table_cards, 0) \notin game.prev_hands[Scored]
       /\ game.leading_suit \in SuitsOf(game.prev_hands[Scored])

----------------------------------------------------------------------------
(* C9 *)

\* C9 (reward_function3.py): when the scored player did not lead the previous
\* trick, held no card of prev_leading_suit and played the queen of spades in
\* it, with no illegal play and no opening trick, the returned reward is
\* exactly +1, whatever the leading suit of the trick in progress is.  Stated
\* for the players whose entry of prev_table_cards is the card they played.
C9_QueenDiscardGivesPlusOne3 ==
    ( /\ result.called
      /\ ~game.prev_was_illegals[Scored]
      /\ ~game.prev_was_first_trick
      /\ PlayedCard(game, Scored) = QueenOfSpades
      /\ At(game.prev_table_cards, Scored) = QueenOfSpades
      /\ At(game.prev_table_cards, 0) # QueenOfSpades
      /\ game.prev_leading_suit \notin SuitsOf(game.prev_hands[Scored]) )
    => IsValue(Out, 1, 1)

----------------------------------------------------------------------------
(* C10 *)

\* Highest rank of the previous leading suit among the cards played before
\* player p in the previous trick.
MaxRankBefore(g, p) ==
    LET pos == ((p - g.prev_leading_player_index + NumPlayers) % NumPlayers) + 1
    IN  SetMax({ g.prev_table_cards[i].rank :
                   i \in { j \in 1 .. (pos - 1) :
                             g.prev_table_cards[j].suit = g.prev_leading_suit } })

\* The scored player followed the previous leading suit, without leading,
\* with a rank above every card of that suit played before.
Overplayed(g, p) ==
    /\ ~g.prev_was_illegals[p]
    /\ ~g.prev_was_first_trick
    /\ ~g.shot_the_moon[p]
    /\ PlayedCard(g, p) # NoCard
    /\ PlayedCard(g, p) # At(g.prev_table_cards, 0)
    /\ PlayedCard(g, p).suit = g.prev_leading_suit
    /\ PlayedCard(g, p).rank > MaxRankBefore(g, p)

\* C10 (reward_function4.py): when the scored player did not lead the
\* previous trick, followed the previous leading suit and played a rank
\* exceeding the maximum rank of that suit on the table, the returned reward
\* is strictly negative and its magnitude grows with the rank played.
C10_OverplayPenalised4 ==
    (result.called /\ Overplayed(game, Scored))
    => /\ Out.status = "ok"
       /\ Less(Out, Ok(0, 1))
       /\ \A r \in Ranks :
            (r > PlayedCard(game, Scored).rank /\ FreshRank(game, Scored, r))
            => LET higher == Reward4(WithRank(game, Scored, r), Scored, Scored,
                                     result.trick_is_over)
               IN  higher.status = "ok" /\ Less(higher, Out)

----------------------------------------------------------------------------
(* C11 *)

\* The scored player led the previous trick (not the opening trick) with the
\* two of clubs, legally, holding no heart, without a moon shot.
LedTwoOfClubs(g, p) ==
    /\ ~g.prev_was_illegals[p]
    /\ ~g.prev_was_first_trick
    /\ ~g.shot_the_moon[p]
    /\ Len(g.prev_table_cards) > 0
    /\ PlayedCard(g, p) = Card(0, 0)
    /\ At(g.prev_table_cards, 0) = Card(0, 0)
    /\ Hearts \notin SuitsOf(g.prev_hands[p])

\* A legal play of the previous trick that is neither a moon shot nor the
\* queen of spades.
PlainPlay(g, q) ==
    /\ ~g.prev_was_illegals[q]
    /\ ~g.shot_the_moon[q]
    /\ PlayedCard(g, q) # NoCard
    /\ PlayedCard(g, q) # QueenOfSpades

\* C11 (reward_function4.py): a player who led the previous (non-opening)
\* trick with the two of clubs while holding no heart receives a reward that
\* no other legal play that is neither a moon shot nor a queen-of-spades
\* discard exceeds: neither the play of another player in that trick, nor the
\* lead of a higher club in the state that differs only in the rank led.
C11_LowLeadIsBest4 ==
    (result.called /\ LedTwoOfClubs(game, Scored))
    => /\ Out.status = "ok"
       /\ \A q \in Players :
            PlainPlay(game, q)
            => LET other == Reward4(game, q, Scored, result.trick_is_over)
               IN  other.status = "ok" /\ ~Less(Out, other)
       /\ \A r \in Ranks :
            FreshRank(game, Scored, r)
            => LET higher == Reward4(WithRank(game, Scored, r), Scored, Scored,
                                     result.trick_is_over)
               IN  higher.status = "ok" /\ ~Less(Out, higher)

----------------------------------------------------------------------------
(* C12 *)

\* The call for the scored player reaches the trick-winner rule of
\* reward_function3.py with that player as the declared winner: no earlier
\* rule has returned.
WinnerRuleReached3 ==
    /\ result.called
    /\ ~game.prev_was_illegals[Scored]
    /\ PlayedCard(game, Scored) # NoCard
    /\ ~(result.trick_is_over /\ game.shot_the_moon[Scored])
    /\ ~game.prev_was_first_trick
    /\ NoTableRule3
    /\ game.prev_trick_winner_index = Scored

\* C12 (reward_function3.py): when the trick-winner rule is reached for
\* player p with prev_trick_winner_index = p, the call raises AssertionError
\* and returns no reward if prev_trick_penalty is None, and returns
\* -prev_trick_penalty / max_penalty without failing if it is present.
C12_WinnerWithoutPenaltyFails3 ==
    WinnerRuleReached3
    => /\ game.prev_trick_penalty = None => Out = Raise("AssertionError")
       /\ game.prev_trick_penalty # None
            => IsValue(Out, -game.prev_trick_penalty, game.max_penalty)

\* The declared winner of a trick without a recorded penalty is scored and
\* the call fails.
C12_Witness ==
    /\ WinnerRuleReached3
    /\ game.prev_trick_penalty = None
    /\ Out.status = "AssertionError"

----------------------------------------------------------------------------
(* C13 *)

\* The scored player led the previous trick (not the opening trick) with a
\* heart, legally, while holding a card of another suit, without a moon shot.
LedHeartsByChoice(g, p) ==
    /\ ~g.prev_was_illegals[p]
    /\ ~g.prev_was_first_trick
    /\ ~g.shot_the_moon[p]
    /\ Len(g.prev_table_cards) > 0
    /\ PlayedCard(g, p) # NoCard
    /\ PlayedCard(g, p) = At(g.prev_table_cards, 0)
    /\ PlayedCard(g, p).suit = Hearts
    /\ (SuitsOf(g.prev_hands[p]) \ {Hearts}) # {}

\* C13 (reward_function4.py): when the scored player led the previous
\* (non-opening) trick with a heart while holding at least one card that is
\* not a heart, the returned reward is strictly negative, for every rank of
\* the heart led.
C13_HeartsLeadPenalised4 ==
    (result.called /\ LedHeartsByChoice(game, Scored))
    => /\ Out.status = "ok"
       /\ Less(Out, Ok(0, 1))
       /\ \A r \in Ranks :
            FreshRank(game, Scored, r)
            => LET other == Reward4(WithRank(game, Scored, r), Scored, Scored,
                                    result.trick_is_over)
               IN  other.status = "ok" /\ Less(other, Ok(0, 1))

----------------------------------------------------------------------------
(* C14 *)

\* A trick is in progress: the table holds between 1 and NumPlayers - 1 cards.
TrickInProgress(g) ==
    Len(g.table_cards) >= 1 /\ Len(g.table_cards) <= NumPlayers - 1

\* C14 (reward_function.py): for every state of a trick in progress and every
\* player index, including a player who has not yet played in the current
\* trick, the call returns a reward: it raises neither IndexError (an index
\* past the end of table_cards or prev_table_cards) nor ValueError (max of an
\* empty list of ranks).
C14_NoFailureInProgress1 ==
    (result.called /\ TrickInProgress(game)) => Out.status = "ok"

----------------------------------------------------------------------------
(* C15 *)

\* C15 (reward_function3.py): over any sequence of tricks played in turn
\* order from the trick's leader, the table recording cards in play order,
\* the card compute_reward scores as player p's card of the previous trick,
\* prev_table_cards[p], is the card p played, prev_played_cards[p], for every
\* player p after every completed trick.
C15_ScoredCardIsPlayedCard3 ==
    (result.called /\ Len(game.prev_table_cards) > 0)
    => \A p \in Players : ScoredCard3(game, p) = PlayedCard(game, p)

====
